---- MODULE Spec2Model ----
(***************************************************************************)
(* xCall signaling brokers.                                                *)
(*                                                                         *)
(* The repository holds two deployments of the same matchmaking / relay    *)
(* engine, both modelled here and driven by the same transport events:     *)
(*   - the Cloudflare Durable Object  SignalingServer  (prefix DO_),       *)
(*   - the Bun server  roomManager.ts + signaling.ts   (prefix Bun_).      *)
(* The variable  impl  says which deployment a behaviour runs: "do",       *)
(* "bun", or "both" when the two are fed the same events in lock step.     *)
(* Each handler is an operator from a broker state record to a broker      *)
(* state record; the field  out  collects the messages the handler put on  *)
(* an open socket, in order.                                               *)
(***************************************************************************)
EXTENDS Integers, Sequences, FiniteSets, TLC

\* ------------------------------------------------------------------ bounds
NumPeers == 3

Peers   == 1..NumPeers
\* crypto.randomUUID() room ids: opaque, only compared for equality.  At most
\* NumPeers \div 2 rooms exist at once, so one id is always unused.
RoomIds == 1..((NumPeers \div 2) + 1)

\* `roomId: string | null`
Null   == 0
\* absent peer id in a message (`peerId` not set) / `undefined` partner
NoPeer == 0
\* a field that is `undefined` in a JS object (dropped by JSON.stringify)
Undef  == "undefined"

VARIABLES
    impl,       \* which deployment runs: "do", "bun" or "both"
    conn,       \* transport: state of each peer's WebSocket
    doPeers,    \* DO:  this.peers   Map<string, Peer>   (peer id -> [roomId])
    doRooms,    \* DO:  this.rooms   Map<string, Room>   (room id -> [peer1, peer2])
    doQueue,    \* DO:  this.queue   string[]
    bunPeers,   \* Bun: peers        Map<string, Peer>   (its key set)
    bunRooms,   \* Bun: rooms        Map<string, Room>   (peer id -> [peer1, peer2])
    bunQueue,   \* Bun: queue        Peer[]
    doSent,     \* DO:  messages put on sockets by the last event, in order
    bunSent,    \* Bun: messages put on sockets by the last event, in order
    lastEv,     \* the last transport event handled
    prev        \* history: conn and the broker tables as they were before it

vars == <<impl, conn, doPeers, doRooms, doQueue, bunPeers, bunRooms, bunQueue,
          doSent, bunSent, lastEv, prev>>

\* ------------------------------------------------------- generic helpers
\* Map.delete(k)
MapDelete(m, k) == [x \in (DOMAIN m) \ {k} |-> m[x]]

\* Map.set(k, v)
MapSet(m, k, v) == [x \in (DOMAIN m) \cup {k} |-> IF x = k THEN v ELSE m[x]]

\* array.filter((id) => id !== peerId)
FilterOut(q, peerId) == SelectSeq(q, LAMBDA id : id # peerId)

\* array.findIndex((p) => p.id === userId), 0 for -1
FindIndex(q, userId) ==
    IF \E i \in 1..Len(q) : q[i] = userId
    THEN CHOOSE i \in 1..Len(q) : q[i] = userId /\ \A j \in 1..(i - 1) : q[j] # userId
    ELSE 0

\* array.splice(i, 1)
Splice(q, i) == SubSeq(q, 1, i - 1) \o SubSeq(q, i + 1, Len(q))

SeqToSet(q) == {q[i] : i \in 1..Len(q)}

\* ------------------------------------------------------------- messages
\* Server -> client messages, as the object handed to JSON.stringify.
ServerMessage(type, role, peerId, sdp, candidate, message) ==
    [type |-> type, role |-> role, peerId |-> peerId,
     sdp |-> sdp, candidate |-> candidate, message |-> message]

Queued          == ServerMessage("queued", Undef, NoPeer, Undef, Undef, Undef)
PeerLeft        == ServerMessage("peer-left", Undef, NoPeer, Undef, Undef, Undef)
ErrorMsg(text)  == ServerMessage("error", Undef, NoPeer, Undef, Undef, text)

\* Client -> server messages after JSON.parse; "garbage" stands for a frame
\* on which JSON.parse throws, "null" for the frame `null`, which JSON.parse
\* turns into null (reading `.type` of it throws a TypeError), "bogus" for an
\* object whose type is none of the five known ones.
Sdps  == {"sdpA"}
Cands == {"candA"}
RelayTypes == {"offer", "answer", "ice"}
ClientMessage(type, sdp, candidate) ==
    [type |-> type, sdp |-> sdp, candidate |-> candidate]
ClientMessages ==
    {ClientMessage(t, Undef, Undef) :
         t \in {"join", "leave", "bogus", "garbage", "null"}}
    \cup {ClientMessage("offer", sdp, Undef) : sdp \in Sdps}
    \cup {ClientMessage("answer", sdp, Undef) : sdp \in Sdps}
    \cup {ClientMessage("ice", Undef, candidate) : candidate \in Cands}
NoMessage == ClientMessage("none", Undef, Undef)

\* ws.send(JSON.stringify(message)) : the frame reaches the client only while
\* the socket is open; on any other socket it is dropped.  Each frame is
\* recorded with the room table as it is at the moment of the send, so that
\* the order of a send and a table update inside one handler can be read off.
WsSend(S, to, message) ==
    IF conn[to] = "open"
    THEN [S EXCEPT !.out = Append(@, [to |-> to, msg |-> message,
                                       rooms |-> S.rooms])]
    ELSE S

\* ======================================================================
\* Durable Object broker: class SignalingServer
\* A broker state S is [peers, rooms, queue, out].
\* ======================================================================

\* new Peer { id, ws, roomId: null }
DO_newPeer == [roomId |-> Null]

\* sendToPeer: only a registered peer whose socket is OPEN is written to
DO_sendToPeer(S, peerId, message) ==
    IF peerId \in DOMAIN S.peers /\ conn[peerId] = "open"
    THEN WsSend(S, peerId, message)
    ELSE S

\* room.peer1 === peerId ? room.peer2 : room.peer1
DO_partnerIn(room, peerId) ==
    IF room.peer1 = peerId THEN room.peer2 ELSE room.peer1

\* mutant of DO_leaveRoom: the partner's roomId is not cleared
DO_leaveRoom_keepsPartnerRef(S, peerId) ==
    IF S.peers[peerId].roomId # Null
    THEN LET roomId == S.peers[peerId].roomId
             S1 == IF roomId \in DOMAIN S.rooms
                   THEN LET partnerId == DO_partnerIn(S.rooms[roomId], peerId)
                            Sa == DO_sendToPeer(S, partnerId, PeerLeft)
                        IN  [Sa EXCEPT !.rooms = MapDelete(@, roomId)]
                   ELSE S
         IN  [S1 EXCEPT !.peers[peerId].roomId = Null]
    ELSE S

\* handleLeave, `if (peer.roomId) { ... }`: notify the partner, clear the
\* partner's reference, delete the room, clear the own reference.
DO_leaveRoom(S, peerId) ==
    IF S.peers[peerId].roomId # Null
    THEN LET roomId == S.peers[peerId].roomId
             S1 == IF roomId \in DOMAIN S.rooms
                   THEN LET partnerId == DO_partnerIn(S.rooms[roomId], peerId)
                            Sa == DO_sendToPeer(S, partnerId, PeerLeft)
                            Sb == IF partnerId \in DOMAIN Sa.peers
                                  THEN [Sa EXCEPT !.peers[partnerId].roomId = Null]
                                  ELSE Sa
                        IN  [Sb EXCEPT !.rooms = MapDelete(@, roomId)]
                   ELSE S
         IN  [S1 EXCEPT !.peers[peerId].roomId = Null]
    ELSE S

\* mutant of DO_handleLeave: the queue filter keeps the leaver and drops
\* everyone else (id === peerId)
DO_handleLeave_filterInverted(S, peerId) ==
    IF peerId \notin DOMAIN S.peers
    THEN S
    ELSE DO_leaveRoom([S EXCEPT !.queue =
                           SelectSeq(@, LAMBDA id : id = peerId)], peerId)

\* handleLeave
DO_handleLeave(S, peerId) ==
    IF peerId \notin DOMAIN S.peers
    THEN S
    ELSE DO_leaveRoom([S EXCEPT !.queue = FilterOut(@, peerId)], peerId)

\* mutant of DO_joinLeaveFirst: the room is not left before joining again
DO_joinLeaveFirst_skipped(S, peerId) == S

\* handleJoin, "Already in a room? Leave first"
DO_joinLeaveFirst(S, peerId) ==
    IF S.peers[peerId].roomId # Null THEN DO_handleLeave(S, peerId) ELSE S

\* mutant of DO_joinDequeueSelf: the joiner's own queue entry is kept
DO_joinDequeueSelf_skipped(S, peerId) == S

\* handleJoin, "Remove from queue if already there"
DO_joinDequeueSelf(S, peerId) ==
    [S EXCEPT !.queue = FilterOut(@, peerId)]

\* handleJoin, "Create room": rooms.set, peer.roomId, partner.roomId
DO_createRoom(S, partnerId, peerId, roomId) ==
    LET room == [peer1 |-> partnerId, peer2 |-> peerId]
        S1 == [S  EXCEPT !.rooms = MapSet(@, roomId, room)]
        S2 == [S1 EXCEPT !.peers[peerId].roomId = roomId]
    IN  [S2 EXCEPT !.peers[partnerId].roomId = roomId]

\* { type: 'matched', role } : the Durable Object sends no peerId
DO_matched(role) == ServerMessage("matched", role, NoPeer, Undef, Undef, Undef)

\* mutant of DO_notifyMatched: the roles the other way round (the assignment
\* the Durable Object had before it was aligned with the Bun server)
DO_notifyMatched_swapped(S, partnerId, peerId) ==
    DO_sendToPeer(DO_sendToPeer(S, partnerId, DO_matched("offerer")),
                  peerId, DO_matched("answerer"))

\* handleJoin, "Notify both peers"
DO_notifyMatched(S, partnerId, peerId) ==
    DO_sendToPeer(DO_sendToPeer(S, partnerId, DO_matched("answerer")),
                  peerId, DO_matched("offerer"))

\* handleJoin, `const partnerId = this.queue.shift()!`
DO_shift(S) == [S EXCEPT !.queue = Tail(@)]

\* mutant of DO_handleJoin: the waiting peer is paired without the
\* readyState test
DO_handleJoin_pairsDead(S, peerId, roomId) ==
    IF peerId \notin DOMAIN S.peers
    THEN S
    ELSE LET S1 == DO_joinLeaveFirst(S, peerId)
             S2 == DO_joinDequeueSelf(S1, peerId)
         IN  IF Len(S2.queue) > 0
             THEN LET partnerId == Head(S2.queue)
                  IN  DO_notifyMatched(
                          DO_createRoom(DO_shift(S2), partnerId, peerId, roomId),
                          partnerId, peerId)
             ELSE DO_sendToPeer([S2 EXCEPT !.queue = Append(@, peerId)],
                                peerId, Queued)

\* mutant of DO_handleJoin: after a waiting peer with a dead socket the call
\* returns without trying again
DO_handleJoin_noRetry(S, peerId, roomId) ==
    IF peerId \notin DOMAIN S.peers
    THEN S
    ELSE LET S1 == DO_joinLeaveFirst(S, peerId)
             S2 == DO_joinDequeueSelf(S1, peerId)
         IN  IF Len(S2.queue) > 0
             THEN LET partnerId == Head(S2.queue)
                      S3 == DO_shift(S2)
                  IN  IF partnerId \in DOMAIN S3.peers /\ conn[partnerId] = "open"
                      THEN DO_notifyMatched(
                               DO_createRoom(S3, partnerId, peerId, roomId),
                               partnerId, peerId)
                      ELSE S3
             ELSE DO_sendToPeer([S2 EXCEPT !.queue = Append(@, peerId)],
                                peerId, Queued)

\* handleJoin; roomId is the value crypto.randomUUID() returns if a room is
\* created.  The retry after a dead waiting peer is the recursive call.
RECURSIVE DO_handleJoin(_, _, _)
DO_handleJoin(S, peerId, roomId) ==
    IF peerId \notin DOMAIN S.peers
    THEN S
    ELSE LET S1 == DO_joinLeaveFirst(S, peerId)
             S2 == DO_joinDequeueSelf(S1, peerId)
         IN  IF Len(S2.queue) > 0
             THEN LET partnerId == Head(S2.queue)
                      S3 == DO_shift(S2)
                  IN  IF partnerId \in DOMAIN S3.peers /\ conn[partnerId] = "open"
                      THEN DO_notifyMatched(
                               DO_createRoom(S3, partnerId, peerId, roomId),
                               partnerId, peerId)
                      ELSE DO_handleJoin(S3, peerId, roomId)
             ELSE DO_sendToPeer([S2 EXCEPT !.queue = Append(@, peerId)],
                                peerId, Queued)

\* handleJoin, the calls it makes to itself: the length of this.queue at the
\* entry of the first call and of every retry, in order
RECURSIVE DO_joinQueueLens(_, _)
DO_joinQueueLens(S, peerId) ==
    IF peerId \notin DOMAIN S.peers
    THEN <<Len(S.queue)>>
    ELSE LET S1 == DO_joinLeaveFirst(S, peerId)
             S2 == DO_joinDequeueSelf(S1, peerId)
         IN  IF Len(S2.queue) > 0
             THEN LET partnerId == Head(S2.queue)
                      S3 == DO_shift(S2)
                  IN  IF partnerId \in DOMAIN S3.peers /\ conn[partnerId] = "open"
                      THEN <<Len(S.queue)>>
                      ELSE <<Len(S.queue)>> \o DO_joinQueueLens(S3, peerId)
             ELSE <<Len(S.queue)>>

\* forwardMessage = { type: message.type, sdp: message.sdp,
\*                    candidate: message.candidate }
DO_forwardMessage(message) ==
    ServerMessage(message.type, Undef, NoPeer, message.sdp, message.candidate, Undef)

\* mutant of DO_forwardToPartner: a sender without a room is also dropped
\* from the waiting queue
DO_forwardToPartner_dequeues(S, peerId, message) ==
    IF peerId \notin DOMAIN S.peers \/ S.peers[peerId].roomId = Null
    THEN DO_sendToPeer([S EXCEPT !.queue = FilterOut(@, peerId)],
                       peerId, ErrorMsg("Not in a room"))
    ELSE DO_sendToPeer(S,
                       DO_partnerIn(S.rooms[S.peers[peerId].roomId], peerId),
                       DO_forwardMessage(message))

\* mutant of DO_forwardToPartner: a partner whose socket is not open is
\* reported to the sender
DO_forwardToPartner_reportsDead(S, peerId, message) ==
    IF peerId \notin DOMAIN S.peers \/ S.peers[peerId].roomId = Null
    THEN DO_sendToPeer(S, peerId, ErrorMsg("Not in a room"))
    ELSE LET partnerId == DO_partnerIn(S.rooms[S.peers[peerId].roomId], peerId)
         IN  IF conn[partnerId] = "open"
             THEN DO_sendToPeer(S, partnerId, DO_forwardMessage(message))
             ELSE DO_sendToPeer(S, peerId, ErrorMsg("Partner disconnected"))

\* forwardToPartner
DO_forwardToPartner(S, peerId, message) ==
    IF peerId \notin DOMAIN S.peers \/ S.peers[peerId].roomId = Null
    THEN DO_sendToPeer(S, peerId, ErrorMsg("Not in a room"))
    ELSE IF S.peers[peerId].roomId \notin DOMAIN S.rooms
    THEN DO_sendToPeer(S, peerId, ErrorMsg("Room not found"))
    ELSE DO_sendToPeer(S,
                       DO_partnerIn(S.rooms[S.peers[peerId].roomId], peerId),
                       DO_forwardMessage(message))

\* handleMessage: the switch on message.type
DO_handleMessage(S, peerId, message, roomId) ==
    CASE message.type = "join"      -> DO_handleJoin(S, peerId, roomId)
      [] message.type = "leave"     -> DO_handleLeave(S, peerId)
      [] message.type \in RelayTypes -> DO_forwardToPartner(S, peerId, message)
      [] OTHER -> DO_sendToPeer(S, peerId, ErrorMsg("Unknown message type"))

\* ws 'message' listener: JSON.parse and handleMessage inside one try / catch,
\* so the TypeError handleMessage raises on null is caught as well
DO_onMessage(S, peerId, message, roomId) ==
    IF message.type \in {"garbage", "null"}
    THEN DO_sendToPeer(S, peerId, ErrorMsg("Invalid message format"))
    ELSE DO_handleMessage(S, peerId, message, roomId)

\* mutant of DO_onClose: the peer is not deleted from this.peers
DO_onClose_keepsPeer(S, peerId) == DO_handleLeave(S, peerId)

\* ws 'close' listener: handleLeave(peerId); peers.delete(peerId)
DO_onClose(S, peerId) ==
    LET S1 == DO_handleLeave(S, peerId)
    IN  [S1 EXCEPT !.peers = MapDelete(@, peerId)]

\* mutant of DO_handleWebSocket: the new peer is put in the queue at once
DO_handleWebSocket_autoJoin(S, peerId) ==
    [S EXCEPT !.peers = MapSet(@, peerId, DO_newPeer),
              !.queue = IF Len(@) = 0 THEN Append(@, peerId) ELSE @]

\* handleWebSocket: this.peers.set(peerId, peer)
DO_handleWebSocket(S, peerId) ==
    [S EXCEPT !.peers = MapSet(@, peerId, DO_newPeer)]

\* the broker state before an event is handled
DO_state == [peers |-> doPeers, rooms |-> doRooms, queue |-> doQueue, out |-> <<>>]

\* fetch, /stats: { peers: peers.size, rooms: rooms.size, queue: queue.length }
DO_stats(S) ==
    [peers |-> Cardinality(DOMAIN S.peers),
     rooms |-> Cardinality(DOMAIN S.rooms),
     queue |-> Len(S.queue)]

\* room ids randomUUID() can still return: none that is in use
DO_freshRoomIds ==
    RoomIds \ (DOMAIN doRooms \cup {doPeers[p].roomId : p \in DOMAIN doPeers})

\* ======================================================================
\* Bun broker: roomManager.ts + signaling.ts
\* A broker state B is [peers, rooms, queue, out, ret]; ret is the value the
\* roomManager function returned.  A Peer object { id, ws, joinedAt } is
\* represented by its id (ws is that id's socket, joinedAt is never read);
\* Room.id is only logged and is left out.
\* ======================================================================

\* `return null` of enqueue / a missing rooms entry
NoRoom == [peer1 |-> NoPeer, peer2 |-> NoPeer]

\* createPeer: peers.set(peer.id, peer)
Bun_createPeer(B, userId) == [B EXCEPT !.peers = @ \cup {userId}]

\* createRoom: rooms.set(peer1.id, room); rooms.set(peer2.id, room)
Bun_createRoom(B, peer1, peer2) ==
    LET room == [peer1 |-> peer1, peer2 |-> peer2]
    IN  [B EXCEPT !.rooms = MapSet(MapSet(@, peer1, room), peer2, room),
                  !.ret = room]

\* mutant of Bun_enqueue: queue[0] is read but not shifted out of the queue
Bun_enqueue_peek(B, peer) ==
    IF Len(B.queue) > 0
    THEN Bun_createRoom(B, Head(B.queue), peer)
    ELSE [B EXCEPT !.queue = Append(@, peer), !.ret = NoRoom]

\* mutant of Bun_enqueue: the peer is pushed whether or not somebody waits
Bun_enqueue_alwaysPush(B, peer) ==
    [B EXCEPT !.queue = Append(@, peer), !.ret = NoRoom]

\* enqueue
Bun_enqueue(B, peer) ==
    IF Len(B.queue) > 0
    THEN Bun_createRoom([B EXCEPT !.queue = Tail(@)], Head(B.queue), peer)
    ELSE [B EXCEPT !.queue = Append(@, peer), !.ret = NoRoom]

\* getPartner, NoPeer for undefined
Bun_getPartner(B, userId) ==
    IF userId \notin DOMAIN B.rooms
    THEN NoPeer
    ELSE IF B.rooms[userId].peer1 = userId
         THEN B.rooms[userId].peer2
         ELSE B.rooms[userId].peer1

\* mutant of Bun_removePeer: the queue entry is found but not spliced out
Bun_removePeer_noSplice(B, userId) ==
    IF userId \notin B.peers
    THEN [B EXCEPT !.ret = NoPeer]
    ELSE LET B1 == [B EXCEPT !.peers = @ \ {userId}]
             queueIndex == FindIndex(B1.queue, userId)
         IN  IF queueIndex # 0
             THEN [B1 EXCEPT !.ret = NoPeer]
             ELSE IF userId \in DOMAIN B1.rooms
             THEN LET room == B1.rooms[userId]
                      partner == IF room.peer1 = userId THEN room.peer2 ELSE room.peer1
                  IN  [B1 EXCEPT !.rooms = MapDelete(MapDelete(@, room.peer1), room.peer2),
                                 !.ret = partner]
             ELSE [B1 EXCEPT !.ret = NoPeer]

\* removePeer; ret is the partner to notify, NoPeer for undefined
Bun_removePeer(B, userId) ==
    IF userId \notin B.peers
    THEN [B EXCEPT !.ret = NoPeer]
    ELSE LET B1 == [B EXCEPT !.peers = @ \ {userId}]
             queueIndex == FindIndex(B1.queue, userId)
         IN  IF queueIndex # 0
             THEN [B1 EXCEPT !.queue = Splice(@, queueIndex), !.ret = NoPeer]
             ELSE IF userId \in DOMAIN B1.rooms
             THEN LET room == B1.rooms[userId]
                      partner == IF room.peer1 = userId THEN room.peer2 ELSE room.peer1
                  IN  [B1 EXCEPT !.rooms = MapDelete(MapDelete(@, room.peer1), room.peer2),
                                 !.ret = partner]
             ELSE [B1 EXCEPT !.ret = NoPeer]

\* sendToPeer(peer, message): peer.ws.send, no readyState test
Bun_sendToPeer(B, peer, message) == WsSend(B, peer, message)

\* { type: 'matched', role, peerId }
Bun_matched(role, peerId) ==
    ServerMessage("matched", role, peerId, Undef, Undef, Undef)

\* handleJoin, the `if (room)` branch: notify room.peer1, then room.peer2
Bun_notifyMatched(B, room) ==
    Bun_sendToPeer(
        Bun_sendToPeer(B, room.peer1, Bun_matched("answerer", room.peer2)),
        room.peer2, Bun_matched("offerer", room.peer1))

\* handleJoin
Bun_handleJoin(B, userId) ==
    LET B1 == Bun_enqueue(Bun_createPeer(B, userId), userId)
    IN  IF B1.ret # NoRoom
        THEN Bun_notifyMatched(B1, B1.ret)
        ELSE WsSend(B1, userId, Queued)

\* mutant of Bun_handleLeave: the partner is not told
Bun_handleLeave_silent(B, userId) == Bun_removePeer(B, userId)

\* handleLeave
Bun_handleLeave(B, userId) ==
    LET B1 == Bun_removePeer(B, userId)
    IN  IF B1.ret # NoPeer THEN Bun_sendToPeer(B1, B1.ret, PeerLeft) ELSE B1

\* handleMessage builds the forwarded object per type:
\* { type, sdp: message.sdp } for offer / answer,
\* { type, candidate: message.candidate } for ice
Bun_forwardMessage(message) ==
    IF message.type = "ice"
    THEN ServerMessage("ice", Undef, NoPeer, Undef, message.candidate, Undef)
    ELSE ServerMessage(message.type, Undef, NoPeer, message.sdp, Undef, Undef)

\* forwardToPartner: no partner, silently ignore
Bun_forwardToPartner(B, userId, message) ==
    LET partner == Bun_getPartner(B, userId)
    IN  IF partner # NoPeer THEN Bun_sendToPeer(B, partner, message) ELSE B

\* handleMessage: only JSON.parse is inside the try; on null the switch on
\* message.type throws and the handler ends before anything is sent
Bun_handleMessage(B, userId, message) ==
    CASE message.type = "garbage"   -> WsSend(B, userId, ErrorMsg("Invalid JSON"))
      [] message.type = "null"      -> B
      [] message.type = "join"      -> Bun_handleJoin(B, userId)
      [] message.type = "leave"     -> Bun_handleLeave(B, userId)
      [] message.type \in RelayTypes ->
             Bun_forwardToPartner(B, userId, Bun_forwardMessage(message))
      [] OTHER -> WsSend(B, userId, ErrorMsg("Unknown message type"))

\* handleClose
Bun_handleClose(B, userId) ==
    LET B1 == Bun_removePeer(B, userId)
    IN  IF B1.ret # NoPeer THEN Bun_sendToPeer(B1, B1.ret, PeerLeft) ELSE B1

\* handleOpen: logs only
Bun_handleOpen(B, userId) == B

\* getStats: { connectedPeers: peers.size, waitingInQueue: queue.length,
\* activeRooms: rooms.size / 2 }.  The division is the floating-point one of
\* JavaScript; the quotient is kept as its whole part and the remainder, so
\* that rooms.size = 1 is reported as 0 and a half.
Bun_getStats(B) ==
    [connectedPeers |-> Cardinality(B.peers),
     waitingInQueue |-> Len(B.queue),
     activeRooms    |-> [whole |-> Cardinality(DOMAIN B.rooms) \div 2,
                         halves |-> Cardinality(DOMAIN B.rooms) % 2]]

\* the broker state before an event is handled
Bun_state == [peers |-> bunPeers, rooms |-> bunRooms, queue |-> bunQueue,
              out |-> <<>>, ret |-> NoPeer]

\* ======================================================================
\* Transport events, handled by the deployment(s) impl names.
\* ======================================================================
DO_runs  == impl \in {"do", "both"}
Bun_runs == impl \in {"bun", "both"}

Event(op, peer, msg) == [op |-> op, peer |-> peer, msg |-> msg]

\* conn and the tables of both brokers, as one record
Snapshot ==
    [conn |-> conn,
     doPeers |-> doPeers, doRooms |-> doRooms, doQueue |-> doQueue,
     bunPeers |-> bunPeers, bunRooms |-> bunRooms, bunQueue |-> bunQueue]

InitState ==
    /\ conn = [p \in Peers |-> "idle"]
    /\ doPeers = <<>>
    /\ doRooms = <<>>
    /\ doQueue = <<>>
    /\ bunPeers = {}
    /\ bunRooms = <<>>
    /\ bunQueue = <<>>
    /\ doSent = <<>>
    /\ bunSent = <<>>
    /\ lastEv = Event("init", NoPeer, NoMessage)
    /\ prev = Snapshot

Init == impl \in {"do", "bun"} /\ InitState

\* the running brokers take the states S and B their handlers returned
Commit(S, B) ==
    /\ impl' = impl
    /\ prev' = Snapshot
    /\ doPeers' = IF DO_runs THEN S.peers ELSE doPeers
    /\ doRooms' = IF DO_runs THEN S.rooms ELSE doRooms
    /\ doQueue' = IF DO_runs THEN S.queue ELSE doQueue
    /\ doSent'  = IF DO_runs THEN S.out ELSE <<>>
    /\ bunPeers' = IF Bun_runs THEN B.peers ELSE bunPeers
    /\ bunRooms' = IF Bun_runs THEN B.rooms ELSE bunRooms
    /\ bunQueue' = IF Bun_runs THEN B.queue ELSE bunQueue
    /\ bunSent'  = IF Bun_runs THEN B.out ELSE <<>>

\* a client connects: WebSocket upgrade, fresh peer id
Open(p) ==
    /\ conn[p] = "idle"
    /\ conn' = [conn EXCEPT ![p] = "open"]
    /\ Commit(DO_handleWebSocket(DO_state, p), Bun_handleOpen(Bun_state, p))
    /\ lastEv' = Event("open", p, NoMessage)

\* the socket stops being OPEN (tab closed, network loss); its close event
\* has not been handled yet
Die(p) ==
    /\ conn[p] = "open"
    /\ conn' = [conn EXCEPT ![p] = "dying"]
    /\ Commit(DO_state, Bun_state)
    /\ lastEv' = Event("die", p, NoMessage)

\* the close event of a dead socket is handled
Close(p) ==
    /\ conn[p] = "dying"
    /\ conn' = [conn EXCEPT ![p] = "closed"]
    /\ Commit(DO_onClose(DO_state, p), Bun_handleClose(Bun_state, p))
    /\ lastEv' = Event("close", p, NoMessage)

\* a frame from an open socket is handled
Message(p, message) ==
    /\ conn[p] = "open"
    /\ \E roomId \in (IF DO_runs THEN DO_freshRoomIds ELSE {Null}) :
           Commit(DO_onMessage(DO_state, p, message, roomId),
                  Bun_handleMessage(Bun_state, p, message))
    /\ conn' = conn
    /\ lastEv' = Event("message", p, message)

Next ==
    \/ \E p \in Peers : Open(p)
    \/ \E p \in Peers : Die(p)
    \/ \E p \in Peers : Close(p)
    \/ \E p \in Peers : \E message \in ClientMessages : Message(p, message)

Spec == Init /\ [][Next]_vars

\* the Durable Object deployment alone
InitDO == impl = "do" /\ InitState
SpecDO == InitDO /\ [][Next]_vars

\* Durable Object only: the 'message' listener of a socket whose close event
\* has already been handled runs once more, with the peer id it closed over
LateMessage(p, message) ==
    /\ impl = "do"
    /\ conn[p] = "closed"
    /\ \E roomId \in DO_freshRoomIds :
           Commit(DO_onMessage(DO_state, p, message, roomId), Bun_state)
    /\ conn' = conn
    /\ lastEv' = Event("late", p, message)

NextLate ==
    \/ Next
    \/ \E p \in Peers : \E message \in ClientMessages : LateMessage(p, message)

SpecLate == InitDO /\ [][NextLate]_vars

\* Both brokers fed the same events in lock step, the well-behaved ones only:
\* a socket is open until its close event is handled, and a peer sends join
\* only while it neither waits nor is in a room.
InitBoth == impl = "both" /\ InitState

\* close event of a socket that was open up to now
CloseOpen(p) ==
    /\ conn[p] = "open"
    /\ conn' = [conn EXCEPT ![p] = "closed"]
    /\ Commit(DO_onClose(DO_state, p), Bun_handleClose(Bun_state, p))
    /\ lastEv' = Event("close", p, NoMessage)

JoinUnjoined(p) ==
    /\ conn[p] = "open"
    /\ ~(p \in SeqToSet(doQueue)) /\ doPeers[p].roomId = Null
    /\ ~(p \in SeqToSet(bunQueue)) /\ p \notin DOMAIN bunRooms
    /\ Message(p, ClientMessage("join", Undef, Undef))

Leave(p) == Message(p, ClientMessage("leave", Undef, Undef))

NextBoth ==
    \/ \E p \in Peers : Open(p)
    \/ \E p \in Peers : JoinUnjoined(p)
    \/ \E p \in Peers : Leave(p)
    \/ \E p \in Peers : CloseOpen(p)

SpecBoth == InitBoth /\ [][NextBoth]_vars

\* the transport delivers the close event of every dead socket
CloseFairness == \A p \in Peers : WF_vars(Close(p))
SpecFair   == Spec /\ CloseFairness
SpecDOFair == SpecDO /\ CloseFairness

\* ======================================================================
\* Vocabulary of the properties
\* ======================================================================
\* the last event was the message `type` / the close event
IsMsg(type) == lastEv.op = "message" /\ lastEv.msg.type = type
IsClose     == lastEv.op = "close"
IsRelay     == lastEv.op = "message" /\ lastEv.msg.type \in RelayTypes

\* messages of `type` among `sent` addressed to p, as a sequence
SentTo(sent, p, type) ==
    SelectSeq(sent, LAMBDA e : e.to = p /\ e.msg.type = type)

\* roles announced to p by the matched messages in `sent`
RolesTo(sent, p) ==
    {sent[i].msg.role : i \in {j \in 1..Len(sent) :
                                 sent[j].to = p /\ sent[j].msg.type = "matched"}}

\* Durable Object tables (peers, rooms, queue): membership of p
DO_queued(queue, p) == p \in SeqToSet(queue)
DO_roomsOf(rooms, p) ==
    {r \in DOMAIN rooms : rooms[r].peer1 = p \/ rooms[r].peer2 = p}
DO_paired(peers, rooms, p) ==
    \/ p \in DOMAIN peers /\ peers[p].roomId # Null
    \/ DO_roomsOf(rooms, p) # {}
\* p's roomId names a room of the table / the other member of that room
DO_hasRoom(peers, rooms, p) ==
    p \in DOMAIN peers /\ peers[p].roomId \in DOMAIN rooms
DO_partnerOf(peers, rooms, p) == DO_partnerIn(rooms[peers[p].roomId], p)

\* Bun tables (rooms, queue): membership of p
Bun_queued(queue, p) == p \in SeqToSet(queue)
Bun_paired(rooms, p) == p \in DOMAIN rooms
Bun_partnerOf(rooms, p) ==
    IF rooms[p].peer1 = p THEN rooms[p].peer2 ELSE rooms[p].peer1

\* ======================================================================
\* C1 .. C10
\* ======================================================================

\* C1 (Durable Object): in every reachable state no peer is both in the
\* waiting queue and a member of a room (by its roomId or by the rooms table),
\* no peer is queued twice and no peer is a member of two rooms: each peer is
\* exactly one of unjoined, queued, paired.
C1_DOQueuedXorPaired ==
    \A p \in Peers :
        /\ ~(DO_queued(doQueue, p) /\ DO_paired(doPeers, doRooms, p))
        /\ Len(SelectSeq(doQueue, LAMBDA id : id = p)) <= 1
        /\ Cardinality(DO_roomsOf(doRooms, p)) <= 1

\* C1 witness: a paired peer sent join, its partner is unjoined again and the
\* joiner now waits in the queue.
C1_Witness ==
    /\ impl = "do" /\ IsMsg("join")
    /\ DO_paired(prev.doPeers, prev.doRooms, lastEv.peer)
    /\ DO_queued(doQueue, lastEv.peer)
    /\ doRooms = <<>>

\* C2 (Bun), as claimed: no peer is both in the queue and indexed in the rooms
\* map, and no peer is queued twice.
C2_BunQueuedXorPaired ==
    \A p \in Peers :
        /\ ~(Bun_queued(bunQueue, p) /\ Bun_paired(bunRooms, p))
        /\ Len(SelectSeq(bunQueue, LAMBDA id : id = p)) <= 1

\* C3 (Bun), as claimed: every room in the rooms map has two distinct members.
C3_BunRoomsDistinct ==
    \A k \in DOMAIN bunRooms : bunRooms[k].peer1 # bunRooms[k].peer2

\* C4 (Durable Object): every room in the rooms table has two distinct
\* members, both of them peer ids.
C4_DORoomsDistinct ==
    \A r \in DOMAIN doRooms :
        /\ doRooms[r].peer1 # doRooms[r].peer2
        /\ {doRooms[r].peer1, doRooms[r].peer2} \subseteq Peers

\* C4 witness: a peer that was waiting in the queue sent join again while a
\* room exists.
C4_Witness ==
    /\ impl = "do" /\ IsMsg("join")
    /\ DO_queued(prev.doQueue, lastEv.peer)
    /\ doRooms # <<>>

\* C5 (Bun), as claimed: the room index is symmetric: when getPartner(a) is b,
\* getPartner(b) is a, so rooms[a] and rooms[b] exist together.
C5_BunIndexSymmetric ==
    \A a \in DOMAIN bunRooms :
        LET b == Bun_getPartner(Bun_state, a)
        IN  /\ b \in DOMAIN bunRooms
            /\ Bun_getPartner(Bun_state, b) = a
            /\ bunRooms[b] = bunRooms[a]

\* C6 (both brokers), as claimed: when a member p of a room sends leave or its
\* close event is handled, the other member q # p, if its socket is open, is sent
\* exactly one peer-left; and a leave from a peer that has no room any more
\* sends no peer-left and no error to anyone.
C6_ExactlyOnePeerLeft ==
    LET p == lastEv.peer
    IN  /\ (IsMsg("leave") \/ IsClose) /\ DO_hasRoom(prev.doPeers, prev.doRooms, p)
             => LET q == DO_partnerOf(prev.doPeers, prev.doRooms, p)
                IN  q # p /\ conn[q] = "open"
                      => Len(SentTo(doSent, q, "peer-left")) = 1
        /\ (IsMsg("leave") \/ IsClose) /\ Bun_paired(prev.bunRooms, p)
             => LET q == Bun_partnerOf(prev.bunRooms, p)
                IN  q # p /\ conn[q] = "open"
                      => Len(SentTo(bunSent, q, "peer-left")) = 1
        /\ IsMsg("leave") /\ ~DO_paired(prev.doPeers, prev.doRooms, p)
             => \A e \in SeqToSet(doSent) : e.msg.type \notin {"peer-left", "error"}
        /\ IsMsg("leave") /\ ~Bun_paired(prev.bunRooms, p)
             => \A e \in SeqToSet(bunSent) : e.msg.type \notin {"peer-left", "error"}

\* C7 (both brokers): when a join forms a room, the peer q taken from the
\* waiting queue is sent matched / answerer, the joiner p is sent matched /
\* offerer, neither is sent the other's role, and nobody else is sent matched.
C7_DORoles ==
    LET p == lastEv.peer
    IN  impl = "do" /\ IsMsg("join") /\ DO_hasRoom(doPeers, doRooms, p)
          => LET q == DO_partnerOf(doPeers, doRooms, p)
             IN  /\ DO_queued(prev.doQueue, q)
                 /\ q # p
                 /\ RolesTo(doSent, q) = {"answerer"}
                 /\ RolesTo(doSent, p) = {"offerer"}
                 /\ \A x \in Peers \ {p, q} : RolesTo(doSent, x) = {}

C7_BunRoles ==
    LET p == lastEv.peer
    IN  impl = "bun" /\ IsMsg("join") /\ prev.bunQueue # <<>>
          => LET q == Head(prev.bunQueue)
             IN  /\ bunRooms[p] = [peer1 |-> q, peer2 |-> p]
                 /\ conn[q] = "open" => "answerer" \in RolesTo(bunSent, q)
                 /\ "offerer" \in RolesTo(bunSent, p)
                 /\ q # p => /\ "offerer" \notin RolesTo(bunSent, q)
                             /\ "answerer" \notin RolesTo(bunSent, p)
                 /\ \A x \in Peers \ {p, q} : RolesTo(bunSent, x) = {}

C7_RolesByArrival == C7_DORoles /\ C7_BunRoles

\* C7 witness: in the Bun broker a join met a waiting peer with an open
\* socket; the two are different peers and a room holds them.
C7_Witness ==
    /\ impl = "bun" /\ IsMsg("join")
    /\ prev.bunQueue # <<>>
    /\ Head(prev.bunQueue) # lastEv.peer
    /\ conn[Head(prev.bunQueue)] = "open"
    /\ Bun_paired(bunRooms, lastEv.peer)

\* C8 (both brokers): a join that forms a room pairs the joiner with the head
\* of the waiting queue (the longest waiting peer) and with no other waiting
\* peer; the peers behind the head stay queued in their order.
C8_DOFifo ==
    LET p == lastEv.peer
    IN  impl = "do" /\ IsMsg("join") /\ DO_hasRoom(doPeers, doRooms, p)
          => /\ prev.doQueue # <<>>
             /\ DO_partnerOf(doPeers, doRooms, p) = Head(prev.doQueue)
             /\ doQueue = Tail(FilterOut(prev.doQueue, p))

C8_BunFifo ==
    LET p == lastEv.peer
    IN  impl = "bun" /\ IsMsg("join") /\ prev.bunQueue # <<>>
          => /\ Bun_paired(bunRooms, p)
             /\ Bun_partnerOf(bunRooms, p) = Head(prev.bunQueue)
             /\ bunQueue = Tail(prev.bunQueue)

C8_Fifo == C8_DOFifo /\ C8_BunFifo

\* C8 witness: in the Durable Object a third peer is connected when a join
\* is paired with the head of the queue.
C8_Witness ==
    /\ impl = "do" /\ IsMsg("join")
    /\ prev.doQueue # <<>>
    /\ DO_hasRoom(doPeers, doRooms, lastEv.peer)
    /\ DO_partnerOf(doPeers, doRooms, lastEv.peer) = Head(prev.doQueue)
    /\ \E x \in DOMAIN doPeers : ~DO_paired(doPeers, doRooms, x)

\* C9 (both brokers), as claimed: an offer, answer or ice sent by a paired
\* peer p is put, with type, sdp and candidate unchanged, exactly once on the
\* socket of its partner q (when that socket is open), and on no other socket:
\* not p's own and no third peer's.
RelayedOnce(sent, p, q) ==
    /\ q # p
    /\ \A e \in SeqToSet(sent) : e.to = q
    /\ conn[q] = "open"
         => /\ Len(sent) = 1
            /\ sent[1].msg.type = lastEv.msg.type
            /\ sent[1].msg.sdp = lastEv.msg.sdp
            /\ sent[1].msg.candidate = lastEv.msg.candidate

C9_RelayToPartnerOnly ==
    LET p == lastEv.peer
    IN  /\ IsRelay /\ DO_hasRoom(prev.doPeers, prev.doRooms, p)
             => RelayedOnce(doSent, p, DO_partnerOf(prev.doPeers, prev.doRooms, p))
        /\ IsRelay /\ Bun_paired(prev.bunRooms, p)
             => RelayedOnce(bunSent, p, Bun_partnerOf(prev.bunRooms, p))

\* C10 (both brokers), as claimed: a leave from a peer that is unjoined (it
\* left before, or its room was dissolved by its partner) changes none of the
\* broker's tables and sends nothing.  (A second close event for one socket is
\* not an event the transport delivers.)
C10_LeaveIdempotent ==
    LET p == lastEv.peer
    IN  /\ ( /\ impl = "do" /\ IsMsg("leave")
              /\ ~DO_queued(prev.doQueue, p)
              /\ ~DO_paired(prev.doPeers, prev.doRooms, p) )
             => /\ doPeers = prev.doPeers
                /\ doRooms = prev.doRooms
                /\ doQueue = prev.doQueue
                /\ doSent = <<>>
        /\ ( /\ impl = "bun" /\ IsMsg("leave")
              /\ ~Bun_queued(prev.bunQueue, p)
              /\ ~Bun_paired(prev.bunRooms, p) )
             => /\ bunPeers = prev.bunPeers
                /\ bunRooms = prev.bunRooms
                /\ bunQueue = prev.bunQueue
                /\ bunSent = <<>>

\* ======================================================================
\* C11 .. C20

\* the matched messages in `sent` addressed to p, as (role, peerId) pairs
MatchedTo(sent, p) ==
    {<<sent[i].msg.role, sent[i].msg.peerId>> :
         i \in {j \in 1..Len(sent) :
                  sent[j].to = p /\ sent[j].msg.type = "matched"}}

\* C11, Durable Object: a join that finds nobody waiting answers the joiner
\* with queued; a join by Y that finds X waiting on an open socket sends X
\* matched / answerer with peerId = Y and Y matched / offerer with peerId = X.
C11_DOScenario ==
    LET y == lastEv.peer
    IN  impl = "do" /\ IsMsg("join") =>
          /\ prev.doQueue = <<>> => Len(SentTo(doSent, y, "queued")) = 1
          /\ ( /\ prev.doQueue # <<>>
               /\ Head(prev.doQueue) # y
               /\ conn[Head(prev.doQueue)] = "open" )
               => LET x == Head(prev.doQueue)
                  IN  /\ MatchedTo(doSent, x) = {<<"answerer", y>>}
                      /\ MatchedTo(doSent, y) = {<<"offerer", x>>}

\* C11, Bun broker: the same scenario
C11_BunScenario ==
    LET y == lastEv.peer
    IN  impl = "bun" /\ IsMsg("join") =>
          /\ prev.bunQueue = <<>> => Len(SentTo(bunSent, y, "queued")) = 1
          /\ ( /\ prev.bunQueue # <<>>
               /\ Head(prev.bunQueue) # y
               /\ conn[Head(prev.bunQueue)] = "open" )
               => LET x == Head(prev.bunQueue)
                  IN  /\ MatchedTo(bunSent, x) = {<<"answerer", y>>}
                      /\ MatchedTo(bunSent, y) = {<<"offerer", x>>}

\* C11 (both brokers), as claimed: X joins with nobody waiting and is sent
\* queued; Y then joins, X is sent matched with role answerer and peerId = Y,
\* and Y is sent matched with role offerer and peerId = X.
C11_JoinScenario == C11_DOScenario /\ C11_BunScenario

\* `sent` is one error notification, addressed to p
OneErrorTo(sent, p) ==
    Len(sent) = 1 /\ sent[1].to = p /\ sent[1].msg.type = "error"

\* C12, Durable Object: an offer, answer or ice from a peer that has no room
\* is answered by one error to the sender, reaches nobody else and changes
\* no table.
C12_DOUnpairedRelay ==
    LET p == lastEv.peer
    IN  ( /\ impl = "do" /\ IsRelay
          /\ ~DO_paired(prev.doPeers, prev.doRooms, p) )
          => /\ OneErrorTo(doSent, p)
             /\ doPeers = prev.doPeers
             /\ doRooms = prev.doRooms
             /\ doQueue = prev.doQueue

\* C12, Bun broker: the same
C12_BunUnpairedRelay ==
    LET p == lastEv.peer
    IN  ( /\ impl = "bun" /\ IsRelay
          /\ ~Bun_paired(prev.bunRooms, p) )
          => /\ OneErrorTo(bunSent, p)
             /\ bunPeers = prev.bunPeers
             /\ bunRooms = prev.bunRooms
             /\ bunQueue = prev.bunQueue

\* C12 (both brokers), as claimed: when a peer that has no room (unjoined or
\* queued) sends an offer, answer or ice, the broker sends an error
\* notification to that sender only, delivers the payload to no peer, and
\* changes nobody's membership.
C12_UnpairedRelayRejected == C12_DOUnpairedRelay /\ C12_BunUnpairedRelay

\* position of the first message of `sent` that is addressed to p and has one
\* of `types`; Len(sent) + 1 when there is none
FirstTo(sent, p, types) ==
    LET hits == {i \in 1..Len(sent) : sent[i].to = p /\ sent[i].msg.type \in types}
    IN  IF hits = {} THEN Len(sent) + 1
        ELSE CHOOSE i \in hits : \A j \in hits : i <= j

\* C13, Durable Object: a join from a peer p paired with q first tears the
\* room down: q (on an open socket) is sent one peer-left, ahead of every
\* reply to the join itself; afterwards q is not paired with p, and p is
\* queued or in a room that did not exist before.
C13_DORejoin ==
    LET p == lastEv.peer
    IN  ( /\ impl = "do" /\ IsMsg("join")
          /\ DO_hasRoom(prev.doPeers, prev.doRooms, p) )
          => LET q == DO_partnerOf(prev.doPeers, prev.doRooms, p)
                 old == prev.doPeers[p].roomId
             IN  /\ old \notin DOMAIN doRooms
                 /\ conn[q] = "open" /\ q # p
                      => /\ Len(SentTo(doSent, q, "peer-left")) = 1
                         /\ \A x \in Peers :
                              FirstTo(doSent, q, {"peer-left"})
                                < FirstTo(doSent, x, {"queued", "matched"})
                 /\ ~(DO_hasRoom(doPeers, doRooms, q)
                        /\ DO_partnerOf(doPeers, doRooms, q) = p)
                 /\ DO_queued(doQueue, p) \/ DO_hasRoom(doPeers, doRooms, p)

\* C13, Bun broker: the same
C13_BunRejoin ==
    LET p == lastEv.peer
    IN  ( /\ impl = "bun" /\ IsMsg("join")
          /\ Bun_paired(prev.bunRooms, p) )
          => LET q == Bun_partnerOf(prev.bunRooms, p)
             IN  /\ conn[q] = "open" /\ q # p
                      => /\ Len(SentTo(bunSent, q, "peer-left")) = 1
                         /\ \A x \in Peers :
                              FirstTo(bunSent, q, {"peer-left"})
                                < FirstTo(bunSent, x, {"queued", "matched"})
                 /\ q # p =>
                      ~(Bun_paired(bunRooms, q) /\ Bun_partnerOf(bunRooms, q) = p)
                 /\ Bun_queued(bunQueue, p) \/ Bun_paired(bunRooms, p)

\* C13 (both brokers), as claimed: when a paired peer sends join, its current
\* room is torn down first and its partner is sent peer-left before the new
\* join is processed; afterwards the old partner is no longer paired with the
\* joiner, and the joiner is queued or in a new room.
C13_RejoinLeavesFirst == C13_DORejoin /\ C13_BunRejoin

\* every peer id the Bun room index holds: its keys and the members of its rooms
Bun_roomIds(rooms) ==
    DOMAIN rooms \cup {rooms[k].peer1 : k \in DOMAIN rooms}
                 \cup {rooms[k].peer2 : k \in DOMAIN rooms}

\* every peer id the Durable Object's room table holds
DO_roomIds(rooms) ==
    {rooms[r].peer1 : r \in DOMAIN rooms} \cup {rooms[r].peer2 : r \in DOMAIN rooms}

\* C14, Durable Object: queue and room table name registered peers only, and
\* a peer whose close has been handled is in none of peers, queue and rooms.
C14_DORegistered ==
    impl = "do" =>
      /\ SeqToSet(doQueue) \cup DO_roomIds(doRooms) \subseteq DOMAIN doPeers
      /\ \A p \in Peers : conn[p] = "closed" =>
           /\ p \notin DOMAIN doPeers
           /\ p \notin SeqToSet(doQueue)
           /\ p \notin DO_roomIds(doRooms)

\* C14, Bun broker: the same
C14_BunRegistered ==
    impl = "bun" =>
      /\ SeqToSet(bunQueue) \cup Bun_roomIds(bunRooms) \subseteq bunPeers
      /\ \A p \in Peers : conn[p] = "closed" =>
           /\ p \notin bunPeers
           /\ p \notin SeqToSet(bunQueue)
           /\ p \notin Bun_roomIds(bunRooms)

\* C14 (both brokers), as claimed: every peer id in the queue or in a room
\* (as member or as index key) belongs to a registered peer, and once a
\* peer's close event has been handled the peer is in none of the registry,
\* the queue and the room table.
C14_OnlyRegisteredPeers == C14_DORegistered /\ C14_BunRegistered

\* C15, Durable Object: a leave message leaves its sender in the peers map
C15_DOLeaveKeepsPeer ==
    impl = "do" /\ IsMsg("leave") /\ lastEv.peer \in DOMAIN prev.doPeers
      => lastEv.peer \in DOMAIN doPeers

\* C15, Bun broker: a leave message leaves its sender in the peers map
C15_BunLeaveKeepsPeer ==
    impl = "bun" /\ IsMsg("leave") /\ lastEv.peer \in prev.bunPeers
      => lastEv.peer \in bunPeers

\* C15 (both brokers), as claimed: a leave message does not unregister the
\* peer; after it the peer is still in the table of connected peers (only a
\* close event removes it).
C15_LeaveKeepsRegistration == C15_DOLeaveKeepsPeer /\ C15_BunLeaveKeepsPeer

\* frames no handler understands: text JSON.parse rejects, the JSON value
\* null, and an object with an unknown type
MalformedTypes == {"garbage", "null", "bogus"}
IsMalformed == lastEv.op = "message" /\ lastEv.msg.type \in MalformedTypes

\* the tables of both brokers are as they were before the last event
TablesUnchanged ==
    /\ doPeers = prev.doPeers /\ doRooms = prev.doRooms /\ doQueue = prev.doQueue
    /\ bunPeers = prev.bunPeers /\ bunRooms = prev.bunRooms
    /\ bunQueue = prev.bunQueue

\* C16, Durable Object: a malformed frame is answered by exactly one error to
\* its sender; nothing else is sent, no table changes, the socket stays open.
C16_DOMalformed ==
    impl = "do" /\ IsMalformed
      => /\ OneErrorTo(doSent, lastEv.peer)
         /\ TablesUnchanged
         /\ conn[lastEv.peer] = "open"

\* C16, Bun broker, for the frames its handler gets past: unparsable text and
\* objects with an unknown type
C16_BunTextAndType ==
    impl = "bun" /\ IsMalformed /\ lastEv.msg.type # "null"
      => /\ OneErrorTo(bunSent, lastEv.peer)
         /\ TablesUnchanged
         /\ conn[lastEv.peer] = "open"

\* C16 (both brokers), as claimed: an inbound message that is unparsable or
\* has an unrecognized type causes exactly one error notification to its
\* sender, no message to any other peer, no change to registry, queue or
\* rooms, and does not close the sender's connection.
C16_MalformedRejected ==
    IsMalformed
      => /\ impl = "do"  => OneErrorTo(doSent, lastEv.peer)
         /\ impl = "bun" => OneErrorTo(bunSent, lastEv.peer)
         /\ TablesUnchanged
         /\ conn[lastEv.peer] = "open"

\* the rooms of the Bun index that have p as a member
Bun_roomsOf(rooms, p) ==
    {rooms[k] : k \in {x \in DOMAIN rooms :
                         rooms[x].peer1 = p \/ rooms[x].peer2 = p}}

\* C17, Durable Object: a join that puts the joiner in a room with q took q
\* from the queue (q waited before and waits no more), and no peer is a
\* member of two rooms.
C17_DOSingleMatch ==
    LET p == lastEv.peer
    IN  impl = "do" =>
          /\ IsMsg("join") /\ DO_hasRoom(doPeers, doRooms, p)
               => LET q == DO_partnerOf(doPeers, doRooms, p)
                  IN  DO_queued(prev.doQueue, q) /\ ~DO_queued(doQueue, q)
          /\ \A x \in Peers : Cardinality(DO_roomsOf(doRooms, x)) <= 1

\* C17, Bun broker: the same
C17_BunSingleMatch ==
    LET p == lastEv.peer
    IN  impl = "bun" =>
          /\ IsMsg("join") /\ bunRooms # prev.bunRooms
               => LET q == Bun_partnerOf(bunRooms, p)
                  IN  Bun_queued(prev.bunQueue, q) /\ ~Bun_queued(bunQueue, q)
          /\ \A x \in Peers : Cardinality(Bun_roomsOf(bunRooms, x)) <= 1

\* C17 (both brokers), as claimed: a waiting peer is dequeued by at most one
\* join, so two joins never both form a room with the same waiting peer, and
\* no peer is a member of two rooms at once.
C17_MatchedOnce == C17_DOSingleMatch /\ C17_BunSingleMatch

\* membership of x in the Durable Object: waiting or not, its roomId, and the
\* other member of its room
DO_membership(peers, rooms, queue, x) ==
    [queued  |-> DO_queued(queue, x),
     room    |-> IF x \in DOMAIN peers THEN peers[x].roomId ELSE Null,
     partner |-> IF DO_hasRoom(peers, rooms, x)
                 THEN DO_partnerOf(peers, rooms, x) ELSE NoPeer]

\* membership of x in the Bun broker: waiting or not, its room of the index
Bun_membership(rooms, queue, x) ==
    [queued |-> Bun_queued(queue, x),
     room   |-> IF Bun_paired(rooms, x) THEN rooms[x] ELSE NoRoom]

\* the peers a close or malformed frame of p may touch: p and its partner
DO_selfAndPartner(p) ==
    {p} \cup (IF DO_hasRoom(prev.doPeers, prev.doRooms, p)
              THEN {DO_partnerOf(prev.doPeers, prev.doRooms, p)} ELSE {})
Bun_selfAndPartner(p) ==
    {p} \cup (IF Bun_paired(prev.bunRooms, p)
              THEN {Bun_partnerOf(prev.bunRooms, p)} ELSE {})

\* nothing in `sent` is addressed to p
NothingTo(sent, p) == \A i \in 1..Len(sent) : sent[i].to # p

C18_DOCloseReached ==
    LET p == lastEv.peer
    IN  /\ impl = "do" /\ IsClose
        /\ DO_hasRoom(prev.doPeers, prev.doRooms, p)
        /\ Len(SentTo(doSent, DO_partnerOf(prev.doPeers, prev.doRooms, p),
                      "peer-left")) = 1
        /\ \E x \in Peers \ DO_selfAndPartner(p) :
              DO_queued(prev.doQueue, x) /\ DO_queued(doQueue, x)

\* the replies to a join among `sent` that are addressed to p
JoinRepliesTo(sent, p) ==
    SelectSeq(sent, LAMBDA e : e.to = p /\ e.msg.type \in {"queued", "matched"})

\* the reply of a join by p, given who waited before it: exactly one queued
\* or matched; a matched names the role offerer; queued when no other peer
\* waited, matched when another peer waited on an open socket
OneJoinReply(sent, queue, p) ==
    LET others == SeqToSet(queue) \ {p}
    IN  /\ Len(JoinRepliesTo(sent, p)) = 1
        /\ RolesTo(sent, p) \subseteq {"offerer"}
        /\ others = {} => Len(SentTo(sent, p, "queued")) = 1
        /\ (\E q \in others : conn[q] = "open")
             => Len(SentTo(sent, p, "matched")) = 1

\* C19 (both brokers), as claimed: every join from a connected peer gets
\* exactly one reply addressed to the joiner, queued when no other peer is
\* waiting or matched with role offerer when one is; never both, never two
\* matched, never the role answerer as the result of its own join.
C19_OneJoinReply ==
    LET p == lastEv.peer
    IN  IsMsg("join")
          => /\ impl = "do"  => OneJoinReply(doSent, prev.doQueue, p)
             /\ impl = "bun" => OneJoinReply(bunSent, prev.bunQueue, p)

\* C19, Durable Object alone
C19_DOOneJoinReply ==
    impl = "do" /\ IsMsg("join")
      => OneJoinReply(doSent, prev.doQueue, lastEv.peer)

\* C20, Durable Object: a join from a peer that waits leaves it in the queue
\* exactly once and forms no room.
C20_DOQueuedRejoin ==
    LET p == lastEv.peer
    IN  impl = "do" /\ IsMsg("join") /\ DO_queued(prev.doQueue, p)
          => /\ Len(SelectSeq(doQueue, LAMBDA id : id = p)) = 1
             /\ doRooms = prev.doRooms
             /\ ~DO_paired(doPeers, doRooms, p)

\* C20, Bun broker: the same
C20_BunQueuedRejoin ==
    LET p == lastEv.peer
    IN  impl = "bun" /\ IsMsg("join") /\ Bun_queued(prev.bunQueue, p)
          => /\ Len(SelectSeq(bunQueue, LAMBDA id : id = p)) = 1
             /\ bunRooms = prev.bunRooms

\* C20 (both brokers), as claimed: a join from a peer that is already waiting
\* in the queue leaves that peer in the queue exactly once and forms no room.
C20_QueuedRejoin == C20_DOQueuedRejoin /\ C20_BunQueuedRejoin

\* ======================================================================
\* C21 .. C30

\* x waited before the last event and does not wait after it
DO_dequeued(x)  == DO_queued(prev.doQueue, x) /\ ~DO_queued(doQueue, x)
Bun_dequeued(x) == Bun_queued(prev.bunQueue, x) /\ ~Bun_queued(bunQueue, x)

\* the last event is x's own leave or close
OwnLeaveOrClose(x) ==
    lastEv.peer = x /\ (IsMsg("leave") \/ IsClose)

\* C21, Durable Object, with the one exception its handleJoin makes: a
\* waiting peer leaves the queue only by being put in a room with the joiner,
\* by its own leave or close, or because a join found its socket not open.
C21_DODequeueOrDead ==
    impl = "do" =>
      \A x \in Peers : DO_dequeued(x) =>
         \/ OwnLeaveOrClose(x)
         \/ /\ IsMsg("join") /\ lastEv.peer # x
            /\ DO_hasRoom(doPeers, doRooms, x)
            /\ DO_partnerOf(doPeers, doRooms, x) = lastEv.peer
         \/ IsMsg("join") /\ lastEv.peer # x /\ conn[x] # "open"

\* C21 (both brokers), as claimed: a peer that waits in the queue is removed
\* from it only by being matched into a room with another peer, by its own
\* leave, or by its own close; no event of another peer removes it from the
\* queue without pairing it.
C21_DequeueOnlyByMatchOrSelf ==
    /\ impl = "do" =>
         \A x \in Peers : DO_dequeued(x) =>
            \/ OwnLeaveOrClose(x)
            \/ /\ IsMsg("join")
               /\ DO_hasRoom(doPeers, doRooms, x)
               /\ DO_partnerOf(doPeers, doRooms, x) # x
    /\ impl = "bun" =>
         \A x \in Peers : Bun_dequeued(x) =>
            \/ OwnLeaveOrClose(x)
            \/ /\ IsMsg("join")
               /\ Bun_paired(bunRooms, x)
               /\ Bun_partnerOf(bunRooms, x) # x

\* x is unjoined: not waiting and in no room
DO_unjoined(peers, rooms, queue, x) ==
    ~DO_queued(queue, x) /\ ~DO_paired(peers, rooms, x)
Bun_unjoined(rooms, queue, x) ==
    ~Bun_queued(queue, x) /\ ~Bun_paired(rooms, x) /\ Bun_roomsOf(rooms, x) = {}

\* C22, Durable Object: when p's leave or close has dissolved its room with
\* q (the room is gone from the table), q is unjoined afterwards; and a peer that is unjoined stays unjoined
\* through every event other than its own join.
C22_DOPartnerUnjoined ==
    LET p == lastEv.peer
    IN  impl = "do" =>
          /\ ( /\ IsMsg("leave") \/ IsClose
               /\ DO_hasRoom(prev.doPeers, prev.doRooms, p)
               /\ prev.doPeers[p].roomId \notin DOMAIN doRooms )
               => DO_unjoined(doPeers, doRooms, doQueue,
                              DO_partnerOf(prev.doPeers, prev.doRooms, p))
          /\ \A x \in Peers :
               ( /\ DO_unjoined(prev.doPeers, prev.doRooms, prev.doQueue, x)
                 /\ ~(IsMsg("join") /\ p = x) )
               => DO_unjoined(doPeers, doRooms, doQueue, x)

\* C22, Bun broker: the same
C22_BunPartnerUnjoined ==
    LET p == lastEv.peer
    IN  impl = "bun" =>
          /\ ( /\ IsMsg("leave") \/ IsClose
               /\ p \in prev.bunPeers
               /\ Bun_paired(prev.bunRooms, p)
               /\ Bun_partnerOf(prev.bunRooms, p) # p
               /\ ~Bun_paired(bunRooms, p) )
               => Bun_unjoined(bunRooms, bunQueue, Bun_partnerOf(prev.bunRooms, p))
          /\ \A x \in Peers :
               ( /\ Bun_unjoined(prev.bunRooms, prev.bunQueue, x)
                 /\ ~(IsMsg("join") /\ p = x) )
               => Bun_unjoined(bunRooms, bunQueue, x)

\* C22 (both brokers), as claimed: after a room is dissolved because one
\* member left or disconnected, the remaining member is unjoined, neither in
\* the waiting queue nor in any room, and stays unjoined until it sends join
\* itself.
C22_PartnerUnjoined == C22_DOPartnerUnjoined /\ C22_BunPartnerUnjoined

\* the peer-left frames among `sent`
PeerLeftFrames(sent) ==
    {sent[i] : i \in {j \in 1..Len(sent) : sent[j].msg.type = "peer-left"}}

\* C23, Durable Object: in a leave or close of a paired peer the room is out
\* of the room table when peer-left is sent.
C23_DODissolveThenNotify ==
    LET p == lastEv.peer
    IN  ( /\ impl = "do"
          /\ IsMsg("leave") \/ IsClose
          /\ DO_hasRoom(prev.doPeers, prev.doRooms, p) )
          => \A e \in PeerLeftFrames(doSent) :
                prev.doPeers[p].roomId \notin DOMAIN e.rooms

\* C23, Bun broker: in a leave or close of a paired peer both index entries
\* of the room are out of the room table when peer-left is sent.
C23_BunDissolveThenNotify ==
    LET p == lastEv.peer
    IN  ( /\ impl = "bun"
          /\ IsMsg("leave") \/ IsClose
          /\ Bun_paired(prev.bunRooms, p) )
          => \A e \in PeerLeftFrames(bunSent) :
                /\ p \notin DOMAIN e.rooms
                /\ Bun_partnerOf(prev.bunRooms, p) \notin DOMAIN e.rooms

\* the Bun broker has sent peer-left in a leave or close of a paired peer
C23_BunNotifyReached ==
    /\ impl = "bun"
    /\ IsMsg("leave") \/ IsClose
    /\ Bun_paired(prev.bunRooms, lastEv.peer)
    /\ PeerLeftFrames(bunSent) # {}

\* C23 (both brokers), as claimed: within a single leave or close event of a
\* paired peer, the room is dissolved (removed from the room table for both
\* members) before the peer-left notification is sent to the partner.
C23_DissolveThenNotify == C23_DODissolveThenNotify /\ C23_BunDissolveThenNotify

\* the last event is a frame handled for a peer whose close was handled before
IsLate == lastEv.op = "late"

\* C24 (Durable Object): once a peer's close event has been handled, a join,
\* leave, negotiation or any other frame attributed to that peer changes no
\* table and sends nothing to anyone, and a closed peer is never again in
\* the registry, the queue or a room.
C24_ClosedIsTerminal ==
    /\ IsLate => /\ doPeers = prev.doPeers
                 /\ doRooms = prev.doRooms
                 /\ doQueue = prev.doQueue
                 /\ doSent = <<>>
    /\ \A p \in Peers : conn[p] = "closed" =>
          /\ p \notin DOMAIN doPeers
          /\ ~DO_queued(doQueue, p)
          /\ DO_roomsOf(doRooms, p) = {}

\* a join has been handled for a closed peer while another peer waited on an
\* open socket, and that peer still waits
C24_Witness ==
    /\ IsLate /\ lastEv.msg.type = "join"
    /\ \E x \in Peers : /\ conn[x] = "open"
                        /\ DO_queued(prev.doQueue, x)
                        /\ DO_queued(doQueue, x)

\* C25 (both brokers): handling an offer, answer or ice changes nothing in
\* the registry, the waiting queue or the room table, whether or not the
\* sender is paired, and sends at most one message.
C25_RelayChangesNothing ==
    IsRelay
      => /\ TablesUnchanged
         /\ Len(doSent) <= 1
         /\ Len(bunSent) <= 1

\* an offer of a paired peer has been delivered to its partner by the Bun
\* broker
C25_Witness ==
    LET p == lastEv.peer
    IN  /\ impl = "bun" /\ IsMsg("offer")
        /\ Bun_paired(prev.bunRooms, p)
        /\ Bun_partnerOf(prev.bunRooms, p) # p
        /\ Len(SentTo(bunSent, Bun_partnerOf(prev.bunRooms, p), "offer")) = 1

\* the same in the Durable Object
C25_DORelayReached ==
    LET p == lastEv.peer
    IN  /\ impl = "do" /\ IsMsg("offer")
        /\ DO_hasRoom(prev.doPeers, prev.doRooms, p)
        /\ Len(SentTo(doSent, DO_partnerOf(prev.doPeers, prev.doRooms, p),
                      "offer")) = 1

\* an offer of a peer that has no room has been handled by the Durable Object
C25_DOUnpairedReached ==
    /\ impl = "do" /\ IsMsg("offer")
    /\ ~DO_paired(prev.doPeers, prev.doRooms, lastEv.peer)
    /\ Len(doSent) = 1

\* C26 (Durable Object): when a paired peer sends an offer, answer or ice and
\* its partner's socket is no longer open (the partner's close not handled
\* yet), nothing is delivered, no error goes back to the sender, and the room
\* and both members' room references stay as they are.
C26_DeadPartnerSilent ==
    LET p == lastEv.peer
    IN  ( /\ impl = "do" /\ IsRelay
          /\ DO_hasRoom(prev.doPeers, prev.doRooms, p)
          /\ conn[DO_partnerOf(prev.doPeers, prev.doRooms, p)] # "open" )
          => /\ doSent = <<>>
             /\ doRooms = prev.doRooms
             /\ doPeers = prev.doPeers
             /\ doQueue = prev.doQueue
             /\ prev.doPeers[p].roomId \in DOMAIN doRooms

\* an ice candidate of a paired peer has been handled while the partner's
\* socket was dead and its close not yet handled
C26_Witness ==
    LET p == lastEv.peer
    IN  /\ impl = "do" /\ IsMsg("ice")
        /\ DO_hasRoom(prev.doPeers, prev.doRooms, p)
        /\ conn[DO_partnerOf(prev.doPeers, prev.doRooms, p)] = "dying"
        /\ DO_hasRoom(doPeers, doRooms, p)

\* C27 (both brokers): a leave or close from a peer that waits in the queue
\* takes exactly that peer out of the queue, the others staying in their
\* order, and sends no notification to any peer.
C27_QueuedLeaveSilent ==
    LET p == lastEv.peer
    IN  IsMsg("leave") \/ IsClose
          => /\ impl = "do" /\ DO_queued(prev.doQueue, p)
                  => /\ doQueue = FilterOut(prev.doQueue, p)
                     /\ doSent = <<>>
             /\ impl = "bun" /\ Bun_queued(prev.bunQueue, p)
                  => /\ bunQueue = FilterOut(prev.bunQueue, p)
                     /\ bunSent = <<>>

\* the Bun broker has handled the close of a waiting peer while another peer
\* was connected
C27_Witness ==
    /\ impl = "bun" /\ IsClose
    /\ Bun_queued(prev.bunQueue, lastEv.peer)
    /\ ~Bun_queued(bunQueue, lastEv.peer)
    /\ \E x \in Peers \ {lastEv.peer} : conn[x] = "open"

\* the Durable Object has handled the leave of a waiting peer
C27_DOLeaveReached ==
    /\ impl = "do" /\ IsMsg("leave")
    /\ DO_queued(prev.doQueue, lastEv.peer)
    /\ ~DO_queued(doQueue, lastEv.peer)

IsOpen == lastEv.op = "open"

\* C28 (both brokers): opening a connection leaves the queue and the room
\* table as they are, with the new peer in neither, and sends nothing; a peer
\* that was not waiting waits only after its own join, and a peer that was
\* not in a room is in one only after its own join or after the join of
\* another peer that found it waiting.
C28_NoAutoJoin ==
    LET p == lastEv.peer
    IN  /\ IsOpen =>
             /\ doSent = <<>> /\ bunSent = <<>>
             /\ doQueue = prev.doQueue /\ doRooms = prev.doRooms
             /\ bunQueue = prev.bunQueue /\ bunRooms = prev.bunRooms
             /\ impl = "do"  => DO_unjoined(doPeers, doRooms, doQueue, p)
             /\ impl = "bun" => Bun_unjoined(bunRooms, bunQueue, p)
        /\ \A x \in Peers :
             /\ ~DO_queued(prev.doQueue, x) /\ DO_queued(doQueue, x)
                  => IsMsg("join") /\ p = x
             /\ ~Bun_queued(prev.bunQueue, x) /\ Bun_queued(bunQueue, x)
                  => IsMsg("join") /\ p = x
             /\ ( /\ ~DO_paired(prev.doPeers, prev.doRooms, x)
                  /\ DO_paired(doPeers, doRooms, x) )
                  => IsMsg("join") /\ (p = x \/ DO_queued(prev.doQueue, x))
             /\ ~Bun_paired(prev.bunRooms, x) /\ Bun_paired(bunRooms, x)
                  => IsMsg("join") /\ (p = x \/ Bun_queued(prev.bunQueue, x))

\* a connection has been opened while another peer waited, and that peer
\* still waits alone
C28_Witness ==
    /\ IsOpen /\ impl = "do"
    /\ \E x \in Peers \ {lastEv.peer} : doQueue = <<x>> /\ conn[x] = "open"
    /\ lastEv.peer \in DOMAIN doPeers

\* the same in the Bun broker
C28_BunOpenReached ==
    /\ IsOpen /\ impl = "bun"
    /\ \E x \in Peers \ {lastEv.peer} : bunQueue = <<x>> /\ conn[x] = "open"

\* p's socket is dead, its close not handled, and p waits or is in a room
DO_deadMember(p) ==
    conn[p] = "dying" /\ (DO_queued(doQueue, p) \/ DO_paired(doPeers, doRooms, p))
Bun_deadMember(p) ==
    conn[p] = "dying" /\ (Bun_queued(bunQueue, p) \/ p \in Bun_roomIds(bunRooms))

\* p's close has just been handled: p is in no queue and no room, and the
\* partner it had, if that one's socket is open, has been sent peer-left
DO_cleanedUp(p) ==
    /\ IsClose /\ lastEv.peer = p
    /\ ~DO_queued(doQueue, p) /\ ~DO_paired(doPeers, doRooms, p)
    /\ DO_hasRoom(prev.doPeers, prev.doRooms, p)
         => LET q == DO_partnerOf(prev.doPeers, prev.doRooms, p)
            IN  conn[q] = "open" => Len(SentTo(doSent, q, "peer-left")) = 1
Bun_cleanedUp(p) ==
    /\ IsClose /\ lastEv.peer = p
    /\ ~Bun_queued(bunQueue, p) /\ p \notin Bun_roomIds(bunRooms)
    /\ Bun_paired(prev.bunRooms, p)
         => LET q == Bun_partnerOf(prev.bunRooms, p)
            IN  conn[q] = "open" /\ q # p
                  => Len(SentTo(bunSent, q, "peer-left")) = 1

\* C29, Durable Object: with every close event delivered, a peer whose socket
\* dies while it waits or is in a room is eventually cleaned up.
C29_DOCleanup ==
    \A p \in Peers : (impl = "do" /\ DO_deadMember(p)) ~> DO_cleanedUp(p)

\* C29 (both brokers), as claimed: if the close event of every dead
\* connection is eventually delivered, then every peer whose connection dies
\* while it is queued or paired is eventually absent from the queue and from
\* every room, and its partner, if it had one whose connection is still
\* open, has been sent peer-left.
C29_EventualCleanup ==
    \A p \in Peers :
       /\ (impl = "do" /\ DO_deadMember(p)) ~> DO_cleanedUp(p)
       /\ (impl = "bun" /\ Bun_deadMember(p)) ~> Bun_cleanedUp(p)

\* C30, Durable Object: /stats reports the number of peers whose close has
\* not been handled, the number of rooms formed (half the number of peers
\* that have a room) and the number of waiting peers.
C30_DOStats ==
    impl = "do" =>
      LET stats  == DO_stats(DO_state)
          inRoom == {p \in DOMAIN doPeers : doPeers[p].roomId # Null}
      IN  /\ stats.peers = Cardinality({p \in Peers : conn[p] \in {"open", "dying"}})
          /\ stats.peers = Cardinality(DOMAIN doPeers)
          /\ 2 * stats.rooms = Cardinality(inRoom)
          /\ stats.queue = Cardinality(SeqToSet(doQueue))

\* C30, Bun broker: getStats reports the number of registered peers, the
\* number of waiting peers, and as activeRooms a whole number equal to the
\* number of rooms in the index.
C30_BunStats ==
    impl = "bun" =>
      LET stats == Bun_getStats(Bun_state)
          formed == {bunRooms[k] : k \in DOMAIN bunRooms}
      IN  /\ stats.connectedPeers = Cardinality(bunPeers)
          /\ stats.waitingInQueue = Cardinality(SeqToSet(bunQueue))
          /\ stats.activeRooms.halves = 0
          /\ stats.activeRooms.whole = Cardinality(formed)

\* C30 (both brokers), as claimed: in every reachable state the stats surface
\* reports the true counts: the active room count is the number of rooms
\* currently formed (in the Bun broker rooms.size / 2 is an integer equal to
\* that number), the queue count is the queue length and the peer count is
\* the number of registered peers.
C30_StatsTrue == C30_DOStats /\ C30_BunStats

\* ======================================================================
\* C31 .. C36

C31_DOJoinReached ==
    /\ impl = "do" /\ IsMsg("join")
    /\ Len(prev.doQueue) = 1
    /\ Head(prev.doQueue) # lastEv.peer
    /\ \E x \in Peers \ {lastEv.peer, Head(prev.doQueue)} : conn[x] = "open"

\* C32 (Durable Object): a join never puts the joiner in a room with a peer
\* whose socket is not open; a waiting peer with such a socket is dropped
\* from the queue, gets no room and is sent nothing, and the joiner ends up
\* in a room with another waiting peer or in the queue.
C32_DeadWaiterSkipped ==
    LET p == lastEv.peer
    IN  impl = "do" /\ IsMsg("join") =>
          /\ DO_hasRoom(doPeers, doRooms, p)
               => conn[DO_partnerOf(doPeers, doRooms, p)] = "open"
          /\ \A x \in Peers \ {p} :
               DO_queued(prev.doQueue, x) /\ conn[x] # "open"
                 => /\ ~DO_queued(doQueue, x)
                    /\ ~DO_paired(doPeers, doRooms, x)
                    /\ NothingTo(doSent, x)
                    /\ DO_queued(doQueue, p) \/ DO_hasRoom(doPeers, doRooms, p)

\* a join has been handled by the Durable Object while the waiting peer's
\* socket was dead, and the joiner now waits
C32_Witness ==
    LET p == lastEv.peer
    IN  /\ impl = "do" /\ IsMsg("join")
        /\ Len(prev.doQueue) = 1
        /\ Head(prev.doQueue) # p
        /\ conn[Head(prev.doQueue)] = "dying"
        /\ doQueue = <<p>>

\* C33, Durable Object: peer-left is sent only in a leave, join or close of a
\* peer p, only to the peer that was p's partner before the event, and never
\* to p itself.
C33_DOPeerLeftToPartner ==
    LET p == lastEv.peer
    IN  impl = "do" =>
          \A e \in PeerLeftFrames(doSent) :
             /\ IsMsg("leave") \/ IsMsg("join") \/ IsClose
             /\ e.to # p
             /\ DO_hasRoom(prev.doPeers, prev.doRooms, p)
             /\ e.to = DO_partnerOf(prev.doPeers, prev.doRooms, p)

\* C33, Bun broker: the same
C33_BunPeerLeftToPartner ==
    LET p == lastEv.peer
    IN  impl = "bun" =>
          \A e \in PeerLeftFrames(bunSent) :
             /\ IsMsg("leave") \/ IsMsg("join") \/ IsClose
             /\ e.to # p
             /\ Bun_paired(prev.bunRooms, p)
             /\ e.to = Bun_partnerOf(prev.bunRooms, p)

\* C33 (both brokers), as claimed: peer-left is only ever sent to a peer
\* different from the one whose leave, join or close triggered it, and only
\* to the peer that was its partner immediately before that event; no peer
\* receives peer-left as a result of its own leave or close.
C33_PeerLeftToPartnerOnly == C33_DOPeerLeftToPartner /\ C33_BunPeerLeftToPartner

\* what a broker tells the clients in one event: receiver, type and role of
\* every frame, in the order sent
Notices(sent) ==
    [i \in 1..Len(sent) |->
        [to |-> sent[i].to, type |-> sent[i].msg.type, role |-> sent[i].msg.role]]

\* membership of x as each broker holds it: waiting or not, and the partner
\* (NoPeer when x is in no room)
DO_view(x) ==
    [queued  |-> DO_queued(doQueue, x),
     partner |-> IF DO_hasRoom(doPeers, doRooms, x)
                 THEN DO_partnerOf(doPeers, doRooms, x) ELSE NoPeer]
Bun_view(x) ==
    [queued  |-> Bun_queued(bunQueue, x),
     partner |-> IF Bun_paired(bunRooms, x)
                 THEN Bun_partnerOf(bunRooms, x) ELSE NoPeer]

\* C34: fed the same open, join, leave and close events, with join sent only
\* by unjoined peers and every socket open until its close event, the Bun
\* broker and the Durable Object agree after each event on every peer's
\* membership (unjoined, waiting, or paired with which partner) and on the
\* queued, matched (with role) and peer-left frames sent and their receivers.
C34_BrokersAgree ==
    impl = "both" =>
      /\ \A x \in Peers : DO_view(x) = Bun_view(x)
      /\ Notices(doSent) = Notices(bunSent)

\* both brokers have handled the close of a paired peer and told its partner
C34_Witness ==
    LET p == lastEv.peer
    IN  /\ impl = "both" /\ IsClose
        /\ DO_hasRoom(prev.doPeers, prev.doRooms, p)
        /\ Bun_paired(prev.bunRooms, p)
        /\ Len(SentTo(doSent, DO_partnerOf(prev.doPeers, prev.doRooms, p),
                      "peer-left")) = 1
        /\ Len(SentTo(bunSent, Bun_partnerOf(prev.bunRooms, p), "peer-left")) = 1

\* the error texts among `sent`
ErrorTexts(sent) ==
    {sent[i].msg.message : i \in {j \in 1..Len(sent) : sent[j].msg.type = "error"}}

\* C35 (Durable Object): a registered peer's roomId is non-null exactly when
\* the rooms table has a room with that id that lists the peer; each room is
\* referenced by the roomId of exactly its two members, which are different
\* peers; and forwardToPartner never answers 'Room not found'.
C35_RoomRefsConsistent ==
    impl = "do" =>
      /\ \A p \in DOMAIN doPeers :
           /\ doPeers[p].roomId # Null
                => /\ doPeers[p].roomId \in DOMAIN doRooms
                   /\ doPeers[p].roomId \in DO_roomsOf(doRooms, p)
           /\ DO_roomsOf(doRooms, p) \subseteq {doPeers[p].roomId}
      /\ \A r \in DOMAIN doRooms :
           /\ doRooms[r].peer1 # doRooms[r].peer2
           /\ {p \in DOMAIN doPeers : doPeers[p].roomId = r}
                = {doRooms[r].peer1, doRooms[r].peer2}
      /\ "Room not found" \notin ErrorTexts(doSent)

\* a paired peer's offer has passed both tests of forwardToPartner while a
\* third peer was registered without a room
C35_Witness ==
    LET p == lastEv.peer
    IN  /\ impl = "do" /\ IsRelay
        /\ DO_hasRoom(doPeers, doRooms, p)
        /\ ErrorTexts(doSent) = {}
        /\ \E x \in DOMAIN doPeers : doPeers[x].roomId = Null

\* the Durable Object's tables as they were before the last event
DO_prevState ==
    [peers |-> prev.doPeers, rooms |-> prev.doRooms, queue |-> prev.doQueue,
     out |-> <<>>]

\* C36 (Durable Object): handleJoin terminates: every retry after a waiting
\* peer with a dead socket starts with a strictly shorter queue than the call
\* before it, so there are at most as many retries as peers waited, and when
\* the call has ended the joiner is in a room or in the queue.
C36_JoinTerminates ==
    LET p == lastEv.peer
        lens == DO_joinQueueLens(DO_prevState, p)
    IN  impl = "do" /\ IsMsg("join") =>
          /\ \A i \in 1..(Len(lens) - 1) : lens[i + 1] < lens[i]
          /\ Len(lens) <= Len(prev.doQueue) + 1
          /\ DO_queued(doQueue, p) \/ DO_hasRoom(doPeers, doRooms, p)

\* a join has been handled in which handleJoin called itself once
C36_Witness ==
    /\ impl = "do" /\ IsMsg("join")
    /\ Len(DO_joinQueueLens(DO_prevState, lastEv.peer)) = 2
    /\ DO_queued(doQueue, lastEv.peer)

====
